---------------------------- MODULE Spec2Model ----------------------------
(***************************************************************************)
(* Model of the mask stack of the MatLayer add-on (src/core/layer_masks.py)*)
(* and of the host data it keeps in step: the scene's mask list, the mask  *)
(* selection, the material's mask nodes, their node groups and the links   *)
(* between them.                                                           *)
(*                                                                         *)
(* Strings that the code formats, parses or compares (node names, group    *)
(* names, slot names) are sequences of one-character strings, so that      *)
(* format_mask_name, str() and int() are computed, not assumed.            *)
(*                                                                         *)
(* Every function of the module is an operator from a world (a record of   *)
(* the whole state) to the world it leaves behind.  An exception is the    *)
(* field "fault": the function stops where the exception is raised and the *)
(* writes made before that point stay.  The field "log" records, for the   *)
(* operation in progress, every function entered and every rename made,    *)
(* with the names all nodes carry at that moment.                          *)
(***************************************************************************)
EXTENDS Integers, Sequences, FiniteSets, TLC

VARIABLES
    ctx,                    \* bpy.context: "ok", "no_material" or "no_object"
    matName,                \* name of the active object's material
    masks,                  \* bpy.context.scene.matlayer_masks
    selected_index,         \* scene.matlayer_mask_stack.selected_index
    selected_layer_index,   \* scene.matlayer_layer_stack.selected_layer_index
    nodes,                  \* mask group nodes of the material's node tree
    groups,                 \* bpy.data.node_groups
    links,                  \* links of the material's node tree
    fault,                  \* exception the last operation raised, or "none"
    ret,                    \* value the last operation returned
    op,                     \* the last operation, with its arguments
    log                     \* what the last operation did, step by step

vars == <<ctx, matName, masks, selected_index, selected_layer_index, nodes, groups, links, fault, ret, op, log>>

-----------------------------------------------------------------------------
(* Bounds of the model.                                                    *)

MaxMasks == 3       \* longest mask list explored
IdLimit == 3        \* slot ids are drawn from 0 .. IdLimit-1 (999999 in the code)
FormatRange == 12   \* format_mask_name is applied to indices 0 .. FormatRange
MaskNodeInputs == 2 \* input sockets of a mask group node explored

(* Constants of the program.                                               *)

NodePitch == 600
MaskNodeWidth == 300

\* the material layers that exist
Layers == {0, 1}
MaterialNames == {<<"M">>, <<"7">>}
Contexts == {"ok", "no_material", "no_object"}

-----------------------------------------------------------------------------
(* Strings.                                                                *)

Digits == <<"0", "1", "2", "3", "4", "5", "6", "7", "8", "9">>

IsDigit(c) == \E d \in 1..10 : Digits[d] = c

DigitVal(c) == (CHOOSE d \in 1..10 : Digits[d] = c) - 1

RECURSIVE StrNat(_)
StrNat(n) == IF n < 10 THEN <<Digits[n + 1]>>
             ELSE StrNat(n \div 10) \o <<Digits[(n % 10) + 1]>>

\* str(n) of an int
Str(n) == IF n < 0 THEN <<"-">> \o StrNat(-n) ELSE StrNat(n)

\* int(s) accepts an optional sign, then digits in groups separated by single
\* underscores; anything else is a ValueError.
IntBodyOk(b) ==
    /\ Len(b) > 0
    /\ IsDigit(b[1])
    /\ IsDigit(b[Len(b)])
    /\ \A i \in 1..Len(b) : IsDigit(b[i]) \/ b[i] = "_"
    /\ \A i \in 1..(Len(b) - 1) : ~(b[i] = "_" /\ b[i + 1] = "_")

RECURSIVE IntBodyVal(_, _)
IntBodyVal(b, acc) ==
    IF b = <<>> THEN acc
    ELSE IF Head(b) = "_" THEN IntBodyVal(Tail(b), acc)
    ELSE IntBodyVal(Tail(b), 10 * acc + DigitVal(Head(b)))

HasSign(s) == Len(s) > 0 /\ s[1] \in {"-", "+"}

IntBody(s) == IF HasSign(s) THEN Tail(s) ELSE s

PyIntOk(s) == IntBodyOk(IntBody(s))

PyInt(s) == IF HasSign(s) /\ s[1] = "-" THEN 0 - IntBodyVal(IntBody(s), 0)
            ELSE IntBodyVal(IntBody(s), 0)

\* A format that leaves out the separator between the two indices.
FormatUnseparated(active_material_name, layer, mask) ==
    active_material_name \o <<"_">> \o Str(layer) \o Str(mask)

format_mask_name(active_material_name, layer, mask) ==
    active_material_name \o <<"_">> \o Str(layer) \o <<"_">> \o Str(mask)

Provisional(name) == name \o <<"~">>

\* The host keeps the names of a collection unique: a name already taken gets
\* the first free suffix .001, .002, ...
NameSuffix(k) == <<".">> \o (IF k < 10 THEN <<"0", "0">>
                             ELSE IF k < 100 THEN <<"0">> ELSE <<>>) \o StrNat(k)

UniqueName(name, taken) ==
    IF name \notin taken THEN name
    ELSE LET k == CHOOSE k \in 1..(Cardinality(taken) + 1) :
                    /\ (name \o NameSuffix(k)) \notin taken
                    /\ \A j \in 1..(k - 1) : (name \o NameSuffix(j)) \in taken
         IN  name \o NameSuffix(k)

-----------------------------------------------------------------------------
(* The world the functions act on, and what they return.                   *)

World == [ctx |-> ctx, matName |-> matName, masks |-> masks,
          selected_index |-> selected_index,
          selected_layer_index |-> selected_layer_index, nodes |-> nodes,
          groups |-> groups, links |-> links, fault |-> "none",
          ret |-> [kind |-> "None", id |-> 0, child |-> ""], log |-> <<>>]

NoneRef == [kind |-> "None", id |-> 0, child |-> ""]
NodeRef(i) == [kind |-> "NODE", id |-> i, child |-> ""]
ChildRef(g, c) == [kind |-> "CHILD", id |-> g, child |-> c]
IntRef(n) == [kind |-> "int", id |-> n, child |-> ""]
StrRef(s) == [kind |-> "str", id |-> 0, child |-> s]

Raise(w, exc) == [w EXCEPT !.fault = exc]

Max(a, b) == IF a >= b THEN a ELSE b
Min(a, b) == IF a <= b THEN a ELSE b

\* the names (node name, node group name) every node carries
Snapshot(w) ==
    [i \in 1..Len(w.nodes) |-> <<w.nodes[i].name, w.groups[w.nodes[i].tree].name>>]

Log(w, kind, node) ==
    [w EXCEPT !.log = Append(@, [kind |-> kind, node |-> node, names |-> Snapshot(w)])]

NodeNames(w) == {w.nodes[i].name : i \in 1..Len(w.nodes)}
GroupNames(w) == {w.groups[g].name : g \in 1..Len(w.groups)}

\* nodes.get(name) of the material's node tree: the node's position, 0 for None
NodesGet(w, name) ==
    IF \E i \in 1..Len(w.nodes) : w.nodes[i].name = name
    THEN CHOOSE i \in 1..Len(w.nodes) : w.nodes[i].name = name
    ELSE 0

\* bpy.data.node_groups.get(name): the group's position, 0 for None
NodeGroupsGet(w, name) ==
    IF \E g \in 1..Len(w.groups) : w.groups[g].name = name
    THEN CHOOSE g \in 1..Len(w.groups) : w.groups[g].name = name
    ELSE 0

\* node_tree.nodes.get(child) inside a node group
GroupChildGet(w, g, child) ==
    IF child \in w.groups[g].children THEN ChildRef(g, child) ELSE NoneRef

get_mask_node(w, node_name, layer, mask, get_changed) ==
    IF w.ctx = "no_object" THEN NoneRef
    ELSE IF w.ctx = "no_material" THEN NoneRef
    ELSE IF node_name = "MASK" THEN
        LET base == format_mask_name(w.matName, layer, mask)
            mask_node_name == IF get_changed THEN Provisional(base) ELSE base
            n == NodesGet(w, mask_node_name)
        IN  IF n = 0 THEN NoneRef ELSE NodeRef(n)
    ELSE IF node_name = "MASK_MIX" THEN
        LET g == NodeGroupsGet(w, format_mask_name(w.matName, layer, mask))
        IN  IF g # 0 THEN GroupChildGet(w, g, "MASK_MIX") ELSE NoneRef
    ELSE IF node_name = "PROJECTION" THEN
        LET g == NodeGroupsGet(w, format_mask_name(w.matName, layer, mask))
        IN  IF g # 0 THEN GroupChildGet(w, g, "MASK_MIX") ELSE NoneRef
    ELSE NoneRef

\* the position of the mask node the accessor finds, 0 when it finds none
MaskNode(w, layer, mask, get_changed) ==
    get_mask_node(w, "MASK", layer, mask, get_changed).id

\* material_layers.get_material_layer_node('LAYER', layer): the layer's node,
\* or -1 for None
get_material_layer_node(w, layer) ==
    IF w.ctx # "ok" THEN -1
    ELSE IF layer \in Layers THEN layer ELSE -1

-----------------------------------------------------------------------------
(* add_mask_slot                                                           *)

\* masks.find(name): the index of the first slot of that name, or -1
MasksFind(m, name) ==
    IF \E i \in 1..Len(m) : m[i].name = name
    THEN (CHOOSE i \in 1..Len(m) :
            m[i].name = name /\ \A j \in 1..(i - 1) : m[j].name # name) - 1
    ELSE -1

\* A move that exchanges the two slots.
MasksSwap(m, from, to) ==
    [i \in 1..Len(m) |->
        IF i = to + 1 THEN m[from + 1]
        ELSE IF i = from + 1 THEN m[to + 1]
        ELSE m[i]]

\* masks.move(from, to), both indices from 0
MasksMove(m, from, to) ==
    LET without == [i \in 1..(Len(m) - 1) |-> IF i <= from THEN m[i] ELSE m[i + 1]]
    IN  [i \in 1..Len(m) |->
            IF i <= to THEN without[i]
            ELSE IF i = to + 1 THEN m[from + 1]
            ELSE without[i - 1]]

\* A sampling that keeps the first number drawn, whether a slot carries it or
\* not.
SampleUnchecked(w, id) == TRUE

\* the random id the sampling loop ends with: one that no slot carries
SampleAccepted(w, id) ==
    MasksFind(Append(w.masks, [name |-> <<>>, hidden |-> FALSE]), Str(id)) = -1

\* A move that puts the new slot on top whatever is selected.
MoveToTop(sel, n) == 0

\* where the new slot goes when a slot is selected: above it, inside the list
MoveToIndex(sel, n) == Max(0, Min(sel + 1, n - 1))

\* mask_stack.layer_index, which both branches write, is no property of
\* MATLAYER_mask_stack: the write stays on the Python wrapper of the moment
\* and nothing reads it, so it is no part of the state.
add_mask_slot(w0, id) ==
    LET w == Log(w0, "add_mask_slot", 0)
        added == Append(w.masks, [name |-> <<>>, hidden |-> FALSE])
        named == [added EXCEPT ![Len(added)].name = Str(id)]
        n == Len(named)
    IN  IF w.selected_index < 0 THEN
            [w EXCEPT !.masks = MasksMove(named, n - 1, 0),
                      !.selected_index = n - 1,
                      !.ret = IntRef(n - 1)]
        ELSE
            LET move_to_index == MoveToIndex(w.selected_index, n)
            IN  [w EXCEPT !.masks = MasksMove(named, n - 1, move_to_index),
                          !.selected_index = move_to_index,
                          !.ret = IntRef(move_to_index)]

-----------------------------------------------------------------------------
(* reindex_masks                                                           *)

\* node.name = name: the host keeps node names unique within the node tree
RenameNode(w, n, name) ==
    [w EXCEPT !.nodes[n].name = UniqueName(name, NodeNames(w) \ {w.nodes[n].name})]

\* node.node_tree.name = name: the host keeps node group names unique
RenameTree(w, n, name) ==
    LET g == w.nodes[n].tree
    IN  [w EXCEPT !.groups[g].name = UniqueName(name, GroupNames(w) \ {w.groups[g].name})]

\* the name the ADDED_MASK loop gives a node it finds
ShiftedUpName(w, layer, n) ==
    format_mask_name(w.matName, layer, PyInt(w.nodes[n].name) + 1)

\* A loop that goes one index below the affected one.
RECURSIVE AddedShiftOneMore(_, _, _, _)
AddedShiftOneMore(w, layer, i, affected) ==
    IF i <= affected - 1 \/ i <= 0 THEN w
    ELSE LET n == MaskNode(w, layer, i - 1, FALSE)
         IN  IF n = 0 THEN AddedShiftOneMore(w, layer, i - 1, affected)
             ELSE IF ~PyIntOk(w.nodes[n].name) THEN Raise(w, "ValueError")
             ELSE LET mask_node_name == ShiftedUpName(w, layer, n)
                      renamed == RenameTree(RenameNode(w, n, mask_node_name),
                                            n, mask_node_name)
                  IN  AddedShiftOneMore(Log(renamed, "shift_up", n),
                                        layer, i - 1, affected)

\* A loop that ends at the first index whose node is missing.
RECURSIVE AddedShiftStopping(_, _, _, _)
AddedShiftStopping(w, layer, i, affected) ==
    IF i <= affected THEN w
    ELSE LET n == MaskNode(w, layer, i - 1, FALSE)
         IN  IF n = 0 THEN w
             ELSE IF ~PyIntOk(w.nodes[n].name) THEN Raise(w, "ValueError")
             ELSE LET mask_node_name == ShiftedUpName(w, layer, n)
                      renamed == RenameTree(RenameNode(w, n, mask_node_name),
                                            n, mask_node_name)
                  IN  AddedShiftStopping(Log(renamed, "shift_up", n),
                                         layer, i - 1, affected)

\* for i in range(i, affected, -1): the loop of the ADDED_MASK case
RECURSIVE AddedShift(_, _, _, _)
AddedShift(w, layer, i, affected) ==
    IF i <= affected THEN w
    ELSE LET n == MaskNode(w, layer, i - 1, FALSE)
         IN  IF n = 0 THEN AddedShift(w, layer, i - 1, affected)
             ELSE IF ~PyIntOk(w.nodes[n].name) THEN Raise(w, "ValueError")
             ELSE LET mask_node_name == ShiftedUpName(w, layer, n)
                      renamed == RenameTree(RenameNode(w, n, mask_node_name),
                                            n, mask_node_name)
                  IN  AddedShift(Log(renamed, "shift_up", n), layer, i - 1, affected)

\* the new node gives up its provisional name
CommitProvisional(w, layer, affected) ==
    LET n == MaskNode(w, layer, affected, TRUE)
    IN  IF n = 0 THEN w
        ELSE LET mask_node_name == format_mask_name(w.matName, layer, affected)
                 renamed == RenameTree(RenameNode(w, n, mask_node_name),
                                       n, mask_node_name)
             IN  Log(renamed, "commit", n)

\* for i in range(i, affected + 1, -1): the loop of the DELETED_MASK case
RECURSIVE DeletedShift(_, _, _, _)
DeletedShift(w, layer, i, affected) ==
    IF i <= affected + 1 THEN w
    ELSE LET n == MaskNode(w, layer, i - 1, FALSE)
         IN  IF n = 0 THEN Raise(w, "AttributeError")
             ELSE IF ~PyIntOk(w.nodes[n].name) THEN Raise(w, "ValueError")
             ELSE LET w1 == RenameNode(w, n, Str(PyInt(w.nodes[n].name) - 1))
                      now == w1.nodes[n].name
                  IN  IF ~PyIntOk(now)
                      THEN Raise(Log(w1, "shift_down", n), "ValueError")
                      ELSE LET w2 == RenameTree(w1, n,
                                        format_mask_name(w.matName, layer, PyInt(now) - 1))
                           IN  DeletedShift(Log(w2, "shift_down", n),
                                            layer, i - 1, affected)

reindex_masks(w0, change_made, layer, affected_mask_index) ==
    LET w == Log(w0, "reindex_masks", 0)
    IN  IF change_made = "ADDED_MASK" THEN
            LET shifted == AddedShift(w, layer, Len(w.masks), affected_mask_index)
            IN  IF shifted.fault # "none" THEN shifted
                ELSE CommitProvisional(shifted, layer, affected_mask_index)
        ELSE IF change_made = "DELETED_MASK" THEN
            DeletedShift(w, layer, Len(w.masks), affected_mask_index)
        ELSE w

-----------------------------------------------------------------------------
(* organize_mask_nodes                                                     *)

\* location of a layer's node
LayerNodeLocation(layer) == <<0, 0>>

RECURSIVE PlaceMasks(_, _, _, _)
PlaceMasks(w, layer, i, position_y) ==
    IF i >= Len(w.masks) THEN w
    ELSE LET n == MaskNode(w, layer, i, FALSE)
         IN  IF n = 0 THEN PlaceMasks(w, layer, i + 1, position_y)
             ELSE PlaceMasks(
                    [w EXCEPT !.nodes[n].location =
                                    <<LayerNodeLocation(layer)[1], position_y>>,
                              !.nodes[n].width = MaskNodeWidth],
                    layer, i + 1, position_y - NodePitch)

organize_mask_nodes(w0) ==
    LET w == Log(w0, "organize_mask_nodes", 0)
        layer_node == get_material_layer_node(w, w.selected_layer_index)
    IN  IF layer_node = -1 THEN Raise(w, "AttributeError")
        ELSE PlaceMasks(w, w.selected_layer_index, 0,
                        LayerNodeLocation(layer_node)[2] - NodePitch)

-----------------------------------------------------------------------------
(* link_mask_nodes                                                         *)

\* node_tree.links.new(output 0 of node from, input socket of a node): an
\* input socket holds one link, the new link replaces the one it held
LinksNew(w, from, kind, to, socket) ==
    [w EXCEPT !.links =
        {l \in @ : ~(l.kind = kind /\ l.to = to /\ l.socket = socket)}
        \cup {[from |-> from, kind |-> kind, to |-> to, socket |-> socket]}]

\* inputs[k] of a mask node: the socket, or "" where k is out of range
InputSocket(k) ==
    IF 0 <= k /\ k < MaskNodeInputs THEN Digits[k + 1]
    ELSE IF k < 0 /\ k >= 0 - MaskNodeInputs THEN Digits[k + MaskNodeInputs + 1]
    ELSE ""

\* A teardown that stops after the first link it removes from a node.
DisconnectOneLink(w, n) ==
    LET into == {l \in w.links : l.kind = "MASK" /\ l.to = n}
    IN  IF into = {} THEN w
        ELSE LET first == CHOOSE l \in into :
                            \A m \in into : \E i, j \in 0..(MaskNodeInputs - 1) :
                                /\ InputSocket(i) = l.socket
                                /\ InputSocket(j) = m.socket
                                /\ i <= j
             IN  [w EXCEPT !.links = @ \ {first}]

\* for input in mask_node.inputs: for link in input.links: links.remove(link)
DisconnectInputs(w, n) ==
    [w EXCEPT !.links = {l \in @ : ~(l.kind = "MASK" /\ l.to = n)}]

RECURSIVE DisconnectAll(_, _, _)
DisconnectAll(w, layer, i) ==
    IF i >= Len(w.masks) THEN w
    ELSE LET n == MaskNode(w, layer, i, FALSE)
         IN  DisconnectAll(IF n = 0 THEN w ELSE DisconnectInputs(w, n), layer, i + 1)

LastInputIndex == MaskNodeInputs

RECURSIVE Reconnect(_, _, _)
Reconnect(w, layer, i) ==
    IF i >= Len(w.masks) THEN w
    ELSE LET mask_node == MaskNode(w, layer, i, FALSE)
             next_mask_node == MaskNode(w, layer, i + 1, FALSE)
         IN  IF next_mask_node = 0 THEN Reconnect(w, layer, i + 1)
             ELSE IF mask_node = 0 THEN Raise(w, "AttributeError")
             ELSE IF InputSocket(LastInputIndex) = "" THEN Raise(w, "IndexError")
             ELSE Reconnect(LinksNew(w, mask_node, "MASK", next_mask_node,
                                     InputSocket(LastInputIndex)),
                            layer, i + 1)

ConnectLast(w, layer) ==
    LET layer_node == get_material_layer_node(w, layer)
        last_mask_node == MaskNode(w, layer, Len(w.masks) - 1, FALSE)
    IN  IF last_mask_node = 0 THEN w
        ELSE IF layer_node = -1 THEN Raise(w, "AttributeError")
        ELSE LinksNew(w, last_mask_node, "LAYER", layer_node, "LayerMask")

link_mask_nodes(w0, layer) ==
    LET w == Log(w0, "link_mask_nodes", 0)
    IN  IF w.ctx = "no_object" THEN w
        ELSE IF w.ctx = "no_material" THEN w
        ELSE LET cleared == DisconnectAll(w, layer, 0)
                 chained == Reconnect(cleared, layer, 0)
             IN  IF chained.fault # "none" THEN chained
                 ELSE ConnectLast(chained, layer)

-----------------------------------------------------------------------------
(* add_layer_mask                                                          *)

DefaultNodeWidth == 140
EdgeWearGroupName == <<"M", "L", "_", "E", "d", "g", "e", "W", "e", "a", "r">>
EdgeWearChildren == {"MASK_MIX", "PROJECTION"}

\* blender_addon_utils.append_node_group("ML_EdgeWear", never_auto_delete=True)
append_node_group(w) ==
    [w EXCEPT !.groups = Append(@, [name |-> UniqueName(EdgeWearGroupName, GroupNames(w)),
                                    children |-> EdgeWearChildren])]

\* lines 81 to 86: the group and the new node get the provisional name
NewMaskNode(w, layer, index, owner) ==
    LET g == Len(w.groups)
        name == Provisional(format_mask_name(w.matName, layer, index))
        named == [w EXCEPT !.groups[g].name =
                                UniqueName(name, GroupNames(w) \ {w.groups[g].name})]
    IN  [named EXCEPT !.nodes =
            Append(@, [name |-> UniqueName(name, NodeNames(w)),
                       tree |-> g,
                       owner |-> owner,
                       location |-> <<0, 0>>,
                       width |-> DefaultNodeWidth,
                       label |-> "Edge Wear"])]

\* lines 88 to 90
AfterNewNode(w, layer, index) ==
    LET reindexed == reindex_masks(w, "ADDED_MASK", layer, index)
    IN  IF reindexed.fault # "none" THEN reindexed
        ELSE LET organized == organize_mask_nodes(reindexed)
             IN  IF organized.fault # "none" THEN organized
                 ELSE link_mask_nodes(organized, layer)

add_layer_mask(w0, type, id) ==
    LET w == Log(w0, "add_layer_mask", 0)
    IN  IF type # "EDGE_WEAR" THEN Raise(w, "UnboundLocalError")
        ELSE
            LET selected_layer == w.selected_layer_index
                slotted == add_mask_slot(w, id)
                new_mask_slot_index == slotted.ret.id
            IN  IF slotted.ctx = "no_object" THEN Raise(slotted, "AttributeError")
                ELSE LET appended == append_node_group(slotted)
                     IN  IF appended.ctx = "no_material"
                         THEN Raise(appended, "AttributeError")
                         ELSE AfterNewNode(
                                NewMaskNode(appended, selected_layer,
                                            new_mask_slot_index, Str(id)),
                                selected_layer, new_mask_slot_index)

-----------------------------------------------------------------------------
(* The add-on in the host: the operators of the mask stack and what the    *)
(* user does between them.                                                 *)

Op(name) == [name |-> name, role |-> "", layer |-> 0, index |-> 0, flag |-> FALSE]

\* the state a function call leaves
SetWorld(w, o) ==
    /\ ctx' = w.ctx
    /\ matName' = w.matName
    /\ masks' = w.masks
    /\ selected_index' = w.selected_index
    /\ selected_layer_index' = w.selected_layer_index
    /\ nodes' = w.nodes
    /\ groups' = w.groups
    /\ links' = w.links
    /\ fault' = w.fault
    /\ ret' = w.ret
    /\ log' = w.log
    /\ op' = o

Init ==
    /\ ctx \in Contexts
    /\ matName \in MaterialNames
    /\ masks = <<>>
    /\ selected_index = -1
    /\ selected_layer_index \in Layers
    /\ nodes = <<>>
    /\ groups = <<>>
    /\ links = {}
    /\ fault = "none"
    /\ ret = NoneRef
    /\ op = Op("init")
    /\ log = <<>>

\* poll of every operator of the mask stack
Poll == ctx # "no_object"

MATLAYER_OT_add_edge_wear_mask ==
    /\ Poll
    /\ Len(masks) < MaxMasks
    /\ \E id \in 0..(IdLimit - 1) :
        /\ SampleAccepted(World, id)
        /\ SetWorld(add_layer_mask(World, "EDGE_WEAR", id),
                    Op("add_edge_wear_mask"))

MATLAYER_OT_delete_layer_mask ==
    /\ Poll
    /\ SetWorld(World, Op("delete_layer_mask"))

\* the other operators of the mask stack (add black, add white, move up, move
\* down, duplicate): execute only returns {'FINISHED'}
StubOperatorExecute ==
    /\ Poll
    /\ SetWorld(World, Op("stub_operator"))

\* the user picks a mask in the list, or none
SelectMask ==
    \E k \in (-1)..(Len(masks) - 1) :
        /\ k # selected_index
        /\ SetWorld([World EXCEPT !.selected_index = k],
                    Op("user"))

\* the user picks another material layer
SelectLayer ==
    \E l \in Layers :
        /\ l # selected_layer_index
        /\ SetWorld([World EXCEPT !.selected_layer_index = l],
                    Op("user"))

\* the user makes another object active: one with the material, one with no
\* material, or none
SetContext ==
    \E c \in Contexts :
        /\ c # ctx
        /\ SetWorld([World EXCEPT !.ctx = c], Op("user"))

\* The mask stack of one material layer: the layer selected at the start
\* stays selected.
Next ==
    \/ MATLAYER_OT_add_edge_wear_mask
    \/ MATLAYER_OT_delete_layer_mask
    \/ StubOperatorExecute
    \/ SelectMask
    \/ SetContext

Spec == Init /\ [][Next]_vars

\* The same, with the user free to select another material layer.
NextLayers ==
    \/ MATLAYER_OT_add_edge_wear_mask
    \/ MATLAYER_OT_delete_layer_mask
    \/ StubOperatorExecute
    \/ SelectMask
    \/ SetContext
    \/ SelectLayer

SpecLayers == Init /\ [][NextLayers]_vars

-----------------------------------------------------------------------------
(* The functions called on their own.  The host document is in any state   *)
(* of a bounded family: a mask list of n slots, finalized mask nodes of    *)
(* the selected layer at any set of indices (a node may be missing, a node *)
(* may be left over above the list), at most one node with a provisional   *)
(* name, and links the user has drawn.                                     *)

RECURSIVE Ascending(_)
Ascending(S) ==
    IF S = {} THEN <<>>
    ELSE LET m == CHOOSE x \in S : \A y \in S : x <= y
         IN  <<m>> \o Ascending(S \ {m})

DrawnMasks(n) == [i \in 1..n |-> [name |-> Str(i - 1), hidden |-> FALSE]]

\* finalized nodes at the indices of S, then the provisional node at index P
\* (P = -1: none); node k owns group k
DrawnNames(mat, layer, S, P) ==
    [k \in 1..Cardinality(S) |-> format_mask_name(mat, layer, Ascending(S)[k])]
    \o (IF P >= 0 THEN <<Provisional(format_mask_name(mat, layer, P))>> ELSE <<>>)

DrawnOwners(S, P) ==
    [k \in 1..Cardinality(S) |-> Str(Ascending(S)[k])]
    \o (IF P >= 0 THEN <<Str(P)>> ELSE <<>>)

DrawnNodes(mat, layer, S, P) ==
    [k \in 1..Len(DrawnNames(mat, layer, S, P)) |->
        [name |-> DrawnNames(mat, layer, S, P)[k],
         tree |-> k,
         owner |-> DrawnOwners(S, P)[k],
         location |-> <<0, 0>>,
         width |-> DefaultNodeWidth,
         label |-> "Edge Wear"]]

DrawnGroups(mat, layer, S, P) ==
    [k \in 1..Len(DrawnNames(mat, layer, S, P)) |->
        [name |-> DrawnNames(mat, layer, S, P)[k], children |-> EdgeWearChildren]]

InitDrawn(n, S, P, sel) ==
    /\ ctx \in Contexts
    /\ matName \in MaterialNames
    /\ selected_layer_index \in Layers
    /\ masks = DrawnMasks(n)
    /\ selected_index = sel
    /\ nodes = DrawnNodes(matName, selected_layer_index, S, P)
    /\ groups = DrawnGroups(matName, selected_layer_index, S, P)
    /\ fault = "none"
    /\ ret = NoneRef
    /\ op = Op("init")
    /\ log = <<>>

\* reindex_masks on any such document
InitReindex ==
    \E n \in 0..MaxMasks, S \in SUBSET (0..MaxMasks), P \in (-1)..(MaxMasks - 1) :
        \E sel \in {-1, n - 1} : InitDrawn(n, S, P, sel) /\ links = {}

ReindexCall ==
    \E change \in {"ADDED_MASK", "DELETED_MASK"}, layer \in Layers,
       affected \in 0..Len(masks) :
        SetWorld(reindex_masks(World, change, layer, affected),
                 [Op("reindex_masks") EXCEPT !.role = change, !.layer = layer,
                                             !.index = affected])

NextReindex == ReindexCall

SpecReindex == InitReindex /\ [][NextReindex]_vars

\* reindex_masks called once on any such document
ReindexOnce == op.name = "init" /\ ReindexCall

NextReindexOnce == ReindexOnce

SpecReindexOnce == InitReindex /\ [][NextReindexOnce]_vars


\* link_mask_nodes on any such document with finalized nodes only and up to
\* two links drawn by the user: from a mask node into an input of another
\* mask node or into the LayerMask input of the selected layer
DrawnLinks(k, layer) ==
    {[from |-> a, kind |-> "MASK", to |-> b, socket |-> InputSocket(i)] :
        a \in 1..k, b \in 1..k, i \in 0..(MaskNodeInputs - 1)}
    \cup {[from |-> a, kind |-> "LAYER", to |-> layer, socket |-> "LayerMask"] :
            a \in 1..k}

\* an output feeds another node, and an input socket holds one link
WellFormedLinks(L) ==
    /\ \A l \in L : ~(l.kind = "MASK" /\ l.from = l.to)
    /\ \A l1, l2 \in L :
        (l1.kind = l2.kind /\ l1.to = l2.to /\ l1.socket = l2.socket) => l1 = l2

UpToTwo(D) == {{}} \cup {{a, b} : a \in D, b \in D}

InitLink ==
    \E n \in 0..MaxMasks, S \in SUBSET (0..(MaxMasks - 1)) :
        /\ InitDrawn(n, S, -1, n - 1)
        /\ links \in {L \in UpToTwo(DrawnLinks(Cardinality(S), selected_layer_index)) :
                        WellFormedLinks(L)}

\* op.flag: the call before this one was the same call
LinkCall ==
    \E layer \in Layers :
        SetWorld(link_mask_nodes(World, layer),
                 [Op("link_mask_nodes") EXCEPT
                    !.layer = layer,
                    !.flag = (op.name = "link_mask_nodes" /\ op.layer = layer)])

NextLink == LinkCall

SpecLink == InitLink /\ [][NextLink]_vars

\* get_mask_node on any such document
InitGet ==
    \E S \in SUBSET (0..(MaxMasks - 1)), P \in (-1)..(MaxMasks - 1) :
        InitDrawn(Cardinality(S), S, P, Cardinality(S) - 1) /\ links = {}

GetCall ==
    \E node_name \in {"MASK", "MASK_MIX", "PROJECTION"}, layer \in Layers,
       mask \in 0..MaxMasks, get_changed \in BOOLEAN :
        SetWorld([World EXCEPT !.ret = get_mask_node(World, node_name, layer,
                                                     mask, get_changed)],
                 [Op("get_mask_node") EXCEPT !.role = node_name, !.layer = layer,
                                             !.index = mask, !.flag = get_changed])

NextGet == GetCall

SpecGet == InitGet /\ [][NextGet]_vars

\* add_mask_slot on any mask list and selection, and again on what it leaves.
\* op.index: the selection the call began with; op.flag: the call before this
\* one was add_mask_slot too and began with no selection
InitSlot ==
    \E n \in 0..MaxMasks, sel \in (-1)..(MaxMasks - 1) :
        sel < n /\ InitDrawn(n, {}, -1, sel) /\ links = {}

SlotCall ==
    /\ Len(masks) <= MaxMasks + 1
    /\ \E id \in 0..(MaxMasks + IdLimit) :
        /\ SampleAccepted(World, id)
        /\ SetWorld(add_mask_slot(World, id),
                    [Op("add_mask_slot") EXCEPT
                        !.index = selected_index,
                        !.flag = (op.name = "add_mask_slot" /\ op.index = -1)])

NextSlot == SlotCall

SpecSlot == InitSlot /\ [][NextSlot]_vars

\* add_mask_slot calls with the user selecting a mask, or none, between them,
\* with one active object, one material and one layer: add_mask_slot reads
\* none of them
InitSlotUser ==
    /\ InitSlot
    /\ ctx = "ok"
    /\ matName = <<"M">>
    /\ selected_layer_index = 0

NextSlotUser ==
    \/ SlotCall
    \/ SelectMask

SpecSlotUser == InitSlotUser /\ [][NextSlotUser]_vars

\* format_mask_name on any pair of indices
InitFormat == InitDrawn(0, {}, -1, -1) /\ links = {}

FormatCall ==
    \E layer \in 0..FormatRange, mask \in 0..FormatRange :
        SetWorld([World EXCEPT !.ret = StrRef(format_mask_name(matName, layer, mask))],
                 [Op("format_mask_name") EXCEPT !.layer = layer, !.index = mask])

NextFormat == FormatCall

SpecFormat == InitFormat /\ [][NextFormat]_vars

-----------------------------------------------------------------------------
(* Properties.                                                             *)

\* some node of the layer carries the finalized name of index p
HasIndex(layer, p) ==
    \E i \in 1..Len(nodes) : nodes[i].name = format_mask_name(matName, layer, p)

\* the slot names of the mask list
SlotNames == {masks[i].name : i \in 1..Len(masks)}

\* one node per list position, named for it, and no other node
Contiguity ==
    /\ Len(nodes) = Len(masks)
    /\ \A p \in 0..(Len(masks) - 1) : HasIndex(selected_layer_index, p)

\* C1: starting from the empty stack, after any sequence of add-mask and
\* delete-mask commands the indices encoded in the names of the layer's mask
\* nodes are exactly 0 .. N-1, one node each, N the length of the mask list.
\* Stated for the runs in which every add command found its material, so
\* that every node group appended got its node.
C1_Contiguity == (Len(groups) = Len(nodes)) => Contiguity

\* C2: add_mask_slot with no selection puts the new slot at position 0 and
\* selects 0; with position k selected it puts the new slot at
\* min(k+1, N-1), N the length after the add, and selects that index.
C2_InsertionRule ==
    [][op'.name = "add_edge_wear_mask" =>
        LET N == Len(masks')
            expected == IF selected_index < 0 THEN 0
                        ELSE Min(selected_index + 1, N - 1)
        IN  /\ N = Len(masks) + 1
            /\ masks'[expected + 1].name \notin SlotNames
            /\ selected_index' = expected]_vars

\* C3: from the stack [A], A's node named for index 0, and no selection, an
\* add leaves the new slot at position 0 with its node named for index 0 and
\* A at position 1 with its node named for index 1.
C3_AddWithoutSelectionKeepsOrder ==
    [][(/\ op'.name = "add_edge_wear_mask"
        /\ ctx = "ok"
        /\ selected_index = -1
        /\ Len(masks) = 1
        /\ Len(nodes) = 1
        /\ nodes[1].name = format_mask_name(matName, selected_layer_index, 0)
        /\ nodes[1].owner = masks[1].name)
       =>
       (/\ Len(masks') = 2
        /\ masks'[2] = masks[1]
        /\ \A p \in 0..1 :
            \E i \in 1..Len(nodes') :
                /\ nodes'[i].name = format_mask_name(matName, selected_layer_index, p)
                /\ nodes'[i].owner = masks'[p + 1].name)]_vars

\* C8: with no active object, or an active object without material, an entry
\* point returns without raising and leaves the mask list, the selection,
\* the nodes and the links as they were.
C8_NoActiveContextIsNoOp ==
    [][(ctx # "ok" /\ op'.name = "add_edge_wear_mask") =>
        (fault' = "none" /\ UNCHANGED <<masks, selected_index, nodes, links>>)]_vars

\* the index a finalized name of the layer encodes, -1 for any other name
EncodedIndex(name, layer) ==
    IF \E p \in 0..(MaxMasks + 1) : name = format_mask_name(matName, layer, p)
    THEN CHOOSE p \in 0..(MaxMasks + 1) : name = format_mask_name(matName, layer, p)
    ELSE -1

EncodedIndices(layer) ==
    {EncodedIndex(nodes[i].name, layer) : i \in 1..Len(nodes)}

\* C4: on a stack whose nodes carried the indices 0 .. N-1, with the entry
\* and the node of index j deleted, reindex_masks('DELETED_MASK', layer, j)
\* lowers by one the index of every node above j, in the node's name and in
\* its group's name, and leaves the nodes below j as they are.
C4_DeletionShift ==
    [][(/\ op'.name = "reindex_masks"
        /\ op'.role = "DELETED_MASK"
        /\ op'.layer = selected_layer_index
        /\ ctx = "ok"
        /\ Len(nodes) = Len(masks)
        /\ op'.index <= Len(masks)
        /\ EncodedIndices(op'.layer) = (0..Len(masks)) \ {op'.index})
       =>
       (/\ fault' = "none"
        /\ Len(nodes') = Len(nodes)
        /\ \A i \in 1..Len(nodes) :
            LET p == EncodedIndex(nodes[i].name, op'.layer)
                q == IF p > op'.index THEN p - 1 ELSE p
            IN  /\ nodes'[i].name = format_mask_name(matName, op'.layer, q)
                /\ groups'[nodes'[i].tree].name
                     = format_mask_name(matName, op'.layer, q))]_vars

\* the finalized node of index p of the layer
NodeAt(layer, p) == NodesGet(World, format_mask_name(matName, layer, p))

\* C5: on a stack of N >= 1 masks whose nodes carry the indices 0 .. N-1,
\* link_mask_nodes completes without fault and leaves exactly one link from
\* node i into an input of node i+1 for 0 <= i <= N-2, exactly one link from
\* node N-1 into the LayerMask input of the layer's node, and no other link.
C5_RelinkWiring ==
    [][(/\ op'.name = "link_mask_nodes"
        /\ op'.layer = selected_layer_index
        /\ ctx = "ok"
        /\ Len(masks) >= 1
        /\ Len(nodes) = Len(masks)
        /\ EncodedIndices(op'.layer) = 0..(Len(masks) - 1))
       =>
       LET N == Len(masks)
           L == op'.layer
       IN  /\ fault' = "none"
           /\ \A l \in links' :
                IF l.kind = "MASK"
                THEN \E i \in 0..(N - 2) :
                        l.from = NodeAt(L, i) /\ l.to = NodeAt(L, i + 1)
                ELSE l.from = NodeAt(L, N - 1) /\ l.to = L /\ l.socket = "LayerMask"
           /\ \A i \in 0..(N - 2) :
                Cardinality({l \in links' : /\ l.kind = "MASK"
                                            /\ l.from = NodeAt(L, i)
                                            /\ l.to = NodeAt(L, i + 1)}) = 1
           /\ \E l \in links' : l.kind = "LAYER"]_vars

\* C6: in every state, link_mask_nodes called twice in a row leaves the links
\* that one call leaves.
C6_IdempotentRelink ==
    \A layer \in Layers :
        LET once == link_mask_nodes(World, layer)
            twice == link_mask_nodes([once EXCEPT !.fault = "none"], layer)
        IN  twice.links = once.links

\* link_mask_nodes has just run for the second time in a row, on a document
\* that has links and had links to tear down
C6_Witness ==
    /\ op.name = "link_mask_nodes"
    /\ op.flag
    /\ ctx = "ok"
    /\ fault = "none"
    /\ links # {}
    /\ Len(masks) >= 1

\* every node carries the name of its node group
NamesInSync == \A i \in 1..Len(nodes) : nodes[i].name = groups[nodes[i].tree].name

\* C7: at every command boundary and after every rename of reindex_masks
\* (the shift up, the commit of the provisional name, the shift down) each
\* mask node carries the name of its node group.
C7_NodeAndGroupNamedAlike ==
    /\ NamesInSync
    /\ \A k \in 1..Len(log) :
        log[k].kind \in {"shift_up", "commit", "shift_down"} =>
            \A i \in 1..Len(log[k].names) : log[k].names[i][1] = log[k].names[i][2]

\* C9: when the node of some index inside the stack range is missing,
\* reindex_masks takes it as nothing to do: the missing node makes no call
\* raise (dereferencing None raises AttributeError).
C9_MissingNodeIsSkipped ==
    [][(/\ op'.name = "reindex_masks"
        /\ ctx = "ok"
        /\ \E i \in 0..(Len(masks) - 1) : MaskNode(World, op'.layer, i, FALSE) = 0)
       => fault' # "AttributeError"]_vars

\* what the accessor is to return
ExpectedNode(node_name, layer, mask, get_changed) ==
    LET base == format_mask_name(matName, layer, mask)
    IN  IF ctx # "ok" THEN NoneRef
        ELSE IF node_name = "MASK" THEN
            LET wanted == IF get_changed THEN base \o <<"~">> ELSE base
            IN  IF \E i \in 1..Len(nodes) : nodes[i].name = wanted
                THEN NodeRef(CHOOSE i \in 1..Len(nodes) : nodes[i].name = wanted)
                ELSE NoneRef
        ELSE IF \E g \in 1..Len(groups) :
                    groups[g].name = base /\ node_name \in groups[g].children
             THEN ChildRef(CHOOSE g \in 1..Len(groups) : groups[g].name = base,
                           node_name)
             ELSE NoneRef

\* C10: get_mask_node returns None with no active object, no active material
\* or no node or group of the name looked up; else for 'MASK' the node named
\* format_mask_name(material, layer, mask), with '~' appended when get_changed
\* is set, and for 'MASK_MIX' and 'PROJECTION' the child of that role in the
\* group of that name.
C10_AccessorLookup ==
    op.name = "get_mask_node" =>
        ret = ExpectedNode(op.role, op.layer, op.index, op.flag)

\* the list m without its entry at position p (from 1)
RemoveAt(m, p) == [i \in 1..(Len(m) - 1) |-> IF i < p THEN m[i] ELSE m[i + 1]]

\* C11: the slot names of the mask list are pairwise distinct after every
\* step, and no step changes the name of a slot that exists: a step leaves
\* the list as it was, or as it was with one new slot put in.
C11_IdentityStableAndUnique ==
    [][/\ \A i, j \in 1..Len(masks') : i # j => masks'[i].name # masks'[j].name
       /\ \/ masks' = masks
          \/ \E p \in 1..Len(masks') : RemoveAt(masks', p) = masks]_vars

\* an add command has completed on a list that held two slots
C11_Witness ==
    /\ op.name = "add_edge_wear_mask"
    /\ ctx = "ok"
    /\ Len(masks) >= 3

\* C12: for one material name, format_mask_name gives distinct pairs of
\* indices distinct names, and no name it gives is another of its names with
\* the provisional suffix appended: stated of every two calls in a row.
C12_NameInjectivity ==
    [][(op.name = "format_mask_name" /\ op'.name = "format_mask_name")
       =>
       (/\ (<<op.layer, op.index>> # <<op'.layer, op'.index>>
                => ret'.child # ret.child)
        /\ ret'.child # Provisional(ret.child)
        /\ Provisional(ret'.child) # ret.child)]_vars

\* format_mask_name has been applied to two indices of two digits each
C12_Witness ==
    /\ op.name = "format_mask_name"
    /\ op.layer >= 10
    /\ op.index >= 10
    /\ ret = StrRef(format_mask_name(matName, op.layer, op.index))

\* the mask list of a layer: the functions read scene.matlayer_masks whatever
\* the layer is
LayerMasks(layer) == masks

\* the names of the mask nodes of a layer
LayerNodeNames(layer) ==
    {nodes[i].name : i \in {k \in 1..Len(nodes) :
        \E p \in 0..(MaxMasks + 1) :
            nodes[k].name \in {format_mask_name(matName, layer, p),
                               Provisional(format_mask_name(matName, layer, p))}}}

\* C13: each layer owns its mask stack.  An add under the selected layer,
\* made when that layer has no mask node and another layer has, leaves the
\* mask list and the mask node names of every other layer as they were, and
\* leaves the selected layer with one node, named for index 0.
C13_PerLayerOwnership ==
    [][(/\ op'.name = "add_edge_wear_mask"
        /\ ctx = "ok"
        /\ LayerNodeNames(selected_layer_index) = {}
        /\ \E L \in Layers : LayerNodeNames(L) # {})
       =>
       (/\ \A L \in Layers \ {selected_layer_index} :
                /\ LayerMasks(L)' = LayerMasks(L)
                /\ LayerNodeNames(L)' = LayerNodeNames(L)
        /\ LayerNodeNames(selected_layer_index)'
                = {format_mask_name(matName, selected_layer_index, 0)})]_vars

\* C14 as stated: of two add_mask_slot calls in a row, the first begun with
\* no selection, each puts its new slot at position 0, so the later slot is at
\* position 0 and the earlier one at position 1.
C14_BothInsertOnTop ==
    [][/\ (selected_index = -1 /\ op'.name = "add_mask_slot")
            => masks'[1].name \notin SlotNames
       /\ (op.name = "add_mask_slot" /\ op.index = -1 /\ op'.name = "add_mask_slot")
            => (masks'[1].name \notin SlotNames /\ masks'[2] = masks[1])]_vars

\* C14 amended: of two add_mask_slot calls in a row, the first begun with no
\* selection, the first puts its new slot at position 0 and the second puts
\* its new slot at position min(s + 1, N - 1), s the selection the first call
\* left and N the length after the second call: a position below the first
\* call's slot, which stays at position 0.
C14_SecondInsertsBelowFirst ==
    [][/\ (selected_index = -1 /\ op'.name = "add_mask_slot")
            => (masks'[1].name \notin SlotNames /\ RemoveAt(masks', 1) = masks)
       /\ (op.name = "add_mask_slot" /\ op.index = -1 /\ op'.name = "add_mask_slot")
            => LET p == Min(selected_index + 1, Len(masks))
               IN  /\ p >= 1
                   /\ masks'[1] = masks[1]
                   /\ masks'[p + 1].name \notin SlotNames
                   /\ RemoveAt(masks', p + 1) = masks]_vars

\* add_mask_slot has run twice in a row, the first time with no selection on
\* a list that held a slot
C14_Witness ==
    /\ op.name = "add_mask_slot"
    /\ op.flag
    /\ Len(masks) >= 3

\* C16: add_mask_slot returns the list index at which the slot it created
\* is, whatever the length of the list and the selection.
C16_ReturnsPositionOfNewSlot ==
    [][op'.name = "add_mask_slot" =>
        (/\ ret'.kind = "int"
         /\ ret'.id \in 0..(Len(masks') - 1)
         /\ masks'[ret'.id + 1].name \notin SlotNames)]_vars

\* C15: the Delete Layer Mask command, run with a mask selected whose node
\* exists, leaves the list one slot shorter, without the selected slot, and
\* leaves neither the node created with that slot nor its node group.
C15_DeleteRemovesSelectedMask ==
    [][(/\ op'.name = "delete_layer_mask"
        /\ ctx = "ok"
        /\ selected_index \in 0..(Len(masks) - 1)
        /\ \E i \in 1..Len(nodes) : nodes[i].owner = masks[selected_index + 1].name)
       =>
       (/\ Len(masks') = Len(masks) - 1
        /\ \A k \in 1..Len(masks') : masks'[k].name # masks[selected_index + 1].name
        /\ \A i \in 1..Len(nodes') : nodes'[i].owner # masks[selected_index + 1].name
        /\ Len(groups') = Len(groups) - 1)]_vars

\* the names the nodes carry in a snapshot of the log are pairwise distinct
DistinctNames(names) ==
    \A i, j \in 1..Len(names) : i # j => names[i][1] # names[j][1]

\* C17: on a list of N slots with finalized nodes at the indices 0 .. N-2,
\* one of them at least at an index >= a, and the new node under the
\* provisional name of index a, reindex_masks('ADDED_MASK', layer, a)
\* completes without fault, raises by one the index of every finalized node
\* of index >= a, highest first and with no two nodes of one name at any
\* step, and gives the new node the final name of index a.
C17_ReindexOnAdded ==
    [][(/\ op'.name = "reindex_masks"
        /\ op'.role = "ADDED_MASK"
        /\ op'.layer = selected_layer_index
        /\ ctx = "ok"
        /\ Len(masks) >= 2
        /\ op'.index <= Len(masks) - 2
        /\ Len(nodes) = Len(masks)
        /\ EncodedIndices(op'.layer) = (0..(Len(masks) - 2)) \cup {-1}
        /\ \E i \in 1..Len(nodes) :
             nodes[i].name = Provisional(format_mask_name(matName, op'.layer, op'.index)))
       =>
       (/\ fault' = "none"
        /\ Len(nodes') = Len(nodes)
        /\ \A i \in 1..Len(nodes) :
            LET p == EncodedIndex(nodes[i].name, op'.layer)
                q == IF p = -1 THEN op'.index
                     ELSE IF p >= op'.index THEN p + 1 ELSE p
            IN  /\ nodes'[i].name = format_mask_name(matName, op'.layer, q)
                /\ groups'[nodes'[i].tree].name
                     = format_mask_name(matName, op'.layer, q)
        /\ \A k \in 1..Len(log') : DistinctNames(log'[k].names)
        /\ LET ups == SelectSeq(log', LAMBDA e : e.kind = "shift_up")
           IN  \A k \in 1..Len(ups) :
                EncodedIndex(nodes[ups[k].node].name, op'.layer)
                    = Len(masks) - 1 - k)]_vars

\* the functions add_layer_mask called, in the order of the calls
StepsOfAdd ==
    LET calls == SelectSeq(log, LAMBDA e :
                    e.kind \in {"add_mask_slot", "reindex_masks",
                                "link_mask_nodes", "organize_mask_nodes"})
    IN  [k \in 1..Len(calls) |-> calls[k].kind]

\* C18: an add command that completes has run add_mask_slot, then
\* reindex_masks, then link_mask_nodes, then organize_mask_nodes, each once.
C18_OrderOfSteps ==
    (op.name = "add_edge_wear_mask" /\ fault = "none") =>
        StepsOfAdd = <<"add_mask_slot", "reindex_masks",
                       "link_mask_nodes", "organize_mask_nodes">>

\* the position in ns of the node named for index p of the layer, 0 for none
NodeIn(ns, layer, p) ==
    IF \E i \in 1..Len(ns) : ns[i].name = format_mask_name(matName, layer, p)
    THEN CHOOSE i \in 1..Len(ns) : ns[i].name = format_mask_name(matName, layer, p)
    ELSE 0

\* C19: after an add command, whose last step is link_mask_nodes, on a
\* document where every slot has its node, the LayerMask input of the layer
\* holds at most one link, that link comes from the node of the last slot,
\* and a link between mask nodes that was there before is one from the node
\* of an index into the node of the next index.
C19_NoStaleLink ==
    [][(/\ op'.name = "add_edge_wear_mask"
        /\ ctx = "ok"
        /\ Len(nodes) = Len(masks))
       =>
       LET L == selected_layer_index
           N == Len(masks')
       IN  /\ Cardinality({l \in links' : l.kind = "LAYER" /\ l.to = L}) <= 1
           /\ \A l \in links' :
                l.kind = "LAYER" => l.from = NodeIn(nodes', L, N - 1)
           /\ \A l \in links \cap links' :
                l.kind = "MASK" =>
                    \E i \in 0..(N - 2) :
                        /\ l.from = NodeIn(nodes', L, i)
                        /\ l.to = NodeIn(nodes', L, i + 1)]_vars

\* C20: on a list whose nodes carry the indices 0 .. N but for the deleted
\* index j < N, reindex_masks('DELETED_MASK', layer, j) renames the nodes of
\* the indices j+1, j+2, ..., N in that order, every one of them, and each
\* gets the name of the index below its own at the moment it is renamed.
C20_DeletedShiftAscending ==
    [][(/\ op'.name = "reindex_masks"
        /\ op'.role = "DELETED_MASK"
        /\ op'.layer = selected_layer_index
        /\ ctx = "ok"
        /\ Len(nodes) = Len(masks)
        /\ op'.index < Len(masks)
        /\ EncodedIndices(op'.layer) = (0..Len(masks)) \ {op'.index})
       =>
       LET downs == SelectSeq(log', LAMBDA e : e.kind = "shift_down")
       IN  /\ Len(downs) = Len(masks) - op'.index
           /\ \A k \in 1..Len(downs) :
                /\ EncodedIndex(nodes[downs[k].node].name, op'.layer) = op'.index + k
                /\ downs[k].names[downs[k].node][1]
                     = format_mask_name(matName, op'.layer, op'.index + k - 1)]_vars

\* the lowest index the loop of reindex_masks visits; it starts at the index
\* of the last slot and goes down
LowestVisited(change_made, affected) ==
    IF change_made = "ADDED_MASK" THEN affected ELSE affected + 1

\* the nodes found at the indices lo .. hi of the layer
NodesAtIndices(layer, lo, hi) ==
    {MaskNode(World, layer, j, FALSE) : j \in lo..hi} \ {0}

\* C21 as stated: when the node of an index the loop of reindex_masks visits
\* is missing, the call stops there without an error: no node of an index
\* visited after it gets another name.  Stated of the calls that raise
\* nothing.
C21_StopsAtMissingNode ==
    [][(op'.name = "reindex_masks" /\ ctx = "ok" /\ fault' = "none")
       =>
       \A m \in LowestVisited(op'.role, op'.index)..(Len(masks) - 1) :
            MaskNode(World, op'.layer, m, FALSE) = 0
            => \A n \in NodesAtIndices(op'.layer,
                            LowestVisited(op'.role, op'.index), m - 1) :
                /\ nodes'[n].name = nodes[n].name
                /\ groups'[nodes'[n].tree].name = groups[nodes[n].tree].name]_vars

\* C21 amended: when the node of an index the ADDED_MASK loop visits is
\* missing, the loop skips that index and goes on.  The missing node raises
\* nothing (no AttributeError), and the nodes of the indices visited after it
\* are still taken up: the call ends without fault having renamed every one
\* of them, or it ends with the ValueError that int() raises on the name of
\* one of them.
C21_SkipsMissingNodeAndGoesOn ==
    [][(/\ op'.name = "reindex_masks"
        /\ op'.role = "ADDED_MASK"
        /\ ctx = "ok")
       =>
       \A m \in op'.index..(Len(masks) - 1) :
            MaskNode(World, op'.layer, m, FALSE) = 0
            => LET later == NodesAtIndices(op'.layer, op'.index, m - 1)
               IN  /\ fault' \in {"none", "ValueError"}
                   /\ fault' = "none" =>
                        \A n \in later :
                            \E k \in 1..Len(log') :
                                log'[k].kind = "shift_up" /\ log'[k].node = n
                   /\ fault' = "ValueError" =>
                        \E n \in NodesAtIndices(op'.layer, op'.index, Len(masks) - 1) :
                            ~PyIntOk(nodes[n].name)]_vars

\* reindex_masks('ADDED_MASK') has completed on a document where the node of
\* a visited index was missing, and has renamed a node of a lower index
C21_Witness ==
    /\ op.name = "reindex_masks"
    /\ op.role = "ADDED_MASK"
    /\ ctx = "ok"
    /\ fault = "none"
    /\ \E k \in 1..Len(log) :
        /\ log[k].kind = "shift_up"
        /\ \E p \in op.index..(Len(masks) - 2), m \in 1..(Len(masks) - 1) :
            /\ p < m
            /\ log[1].names[log[k].node][1] = format_mask_name(matName, op.layer, p)
            /\ \A i \in 1..Len(log[1].names) :
                log[1].names[i][1] # format_mask_name(matName, op.layer, m)

\* C22: a reindex_masks call leaves the mask list and the selection as they
\* were, and every node of the layer whose index is below the affected index
\* (ADDED_MASK), or not above it (DELETED_MASK), keeps its name and the name
\* of its node group.
C22_ReindexKeepsTheRest ==
    [][op'.name = "reindex_masks"
       =>
       (/\ masks' = masks
        /\ selected_index' = selected_index
        /\ Len(nodes') = Len(nodes)
        /\ \A n \in 1..Len(nodes) :
            LET p == EncodedIndex(nodes[n].name, op'.layer)
            IN  (p >= 0 /\ p < LowestVisited(op'.role, op'.index))
                => /\ nodes'[n].name = nodes[n].name
                   /\ groups'[nodes'[n].tree].name = groups[nodes[n].tree].name)]_vars

\* reindex_masks has completed with a rename, on a document that has a node
\* of an index below the affected one
C22_Witness ==
    /\ op.name = "reindex_masks"
    /\ ctx = "ok"
    /\ fault = "none"
    /\ op.index >= 1
    /\ HasIndex(op.layer, 0)
    /\ \E k \in 1..Len(log) : log[k].kind \in {"shift_up", "shift_down", "commit"}

\* C23: with add_mask_slot calls and the user's writes of selected_index to
\* values from -1 to len - 1 in any order, selected_index stays from -1 to
\* len(masks) - 1, and every add_mask_slot call makes the list one slot
\* longer, leaves a slot selected and keeps the slots that were there in
\* their order.
C23_SelectionStaysInRange ==
    [][/\ selected_index' >= -1
       /\ selected_index' <= Len(masks') - 1
       /\ op'.name = "add_mask_slot"
            => /\ Len(masks') = Len(masks) + 1
               /\ selected_index' >= 0
               /\ \E p \in 1..Len(masks') : RemoveAt(masks', p) = masks]_vars

\* add_mask_slot has run with a slot selected that the user picked, on a
\* list of three slots or more
C23_Witness ==
    /\ op.name = "add_mask_slot"
    /\ op.index >= 0
    /\ op.index < Len(masks) - 2
    /\ Len(masks) >= 4
    /\ selected_index = op.index + 1

=============================================================================
